---- MODULE Spec2Model ----
(***************************************************************************)
(* back-it-up: backup, restore and verification of a PostgreSQL database   *)
(* that runs in a Docker container.  One run of the command-line program   *)
(* executes one command (backup, restore, verify, test); the containers,   *)
(* their databases and the artifact files outlive the run.                 *)
(*                                                                         *)
(* The repository holds two revisions of the program.  The first has the   *)
(* backup command only (its main, and internal/backup/service.go, whose    *)
(* Backup leaves the dump's error output unread).  The second adds         *)
(* restore, verify and test (cmd/commands.go) and a Backup that pipes and  *)
(* reads the error output.  rev says which revision runs.                  *)
(*                                                                         *)
(* A byte stream is a sequence of tokens: one token per row of the table,  *)
(* SCHEMA for the schema statements of a full dump, DIAG for a line the    *)
(* tool writes to its error output, GZHDR and GZTRL for the gzip header    *)
(* and trailer.                                                            *)
(***************************************************************************)
EXTENDS Integers, Sequences, FiniteSets, TLC

\* ------------------------------------------------------------------ bounds

\* the longest table, in rows
MaxRows == 1
\* the capacity, in tokens, of the OS pipe that carries a process's data
PipeCap == 1
\* the capacity, in tokens, of the OS pipe that carries its error output
ErrCap == 1
\* the seconds of the wall clock a run can start in
MaxSeconds == 1

\* the writes to the target's table between two runs
MaxWrites == 1

\* the most DIAG lines one process writes: one more than the pipe holds
MaxDiag == ErrCap + 1

Vals == {"a", "b"}
Containers == {"pg1", "pg2"}
Seconds == 1..MaxSeconds

\* a database that does not exist, and one that holds rows
NoDb == [exists |-> FALSE, rows |-> <<>>]
Db(rows) == [exists |-> TRUE, rows |-> rows]

\* a file that does not exist, and one that holds data
NoFile == [exists |-> FALSE, data |-> <<>>]
File(data) == [exists |-> TRUE, data |-> data]

VARIABLES
    rev,          \* the revision that runs: "v1" (backup only) or "v2"
    state,        \* container -> "running", "stopped" or "missing"
    db,           \* container -> the rows of the database, or NoDb
    fs,           \* second -> the artifact file named after it, or NoFile
    pc,           \* where the run is
    args,         \* the command and its flags
    cfg,          \* the request of the operation of the service that runs
    gz,           \* the gzip writer or reader of the run
    proc,         \* the process spawned with cmd.Start
    dataPipe,     \* the pipe of its standard output (pg_dump) or input (psql)
    errPipe,      \* the unread DIAG lines in the pipe of its error output
    stderrOutput, \* the DIAG lines io.ReadAll(stderr) returned
    checksum,     \* sourceChecksum and targetChecksum of Verify
    log,          \* the external effects of the run, in order
    ret,          \* what the last operation of the service returned
    exit,         \* the exit status of the run
    track,        \* history: the last Restore and the writes since
    reqs,         \* the requests whose artifacts are named (the filename alone)
    names,        \* the filenames of these requests
    before        \* the files when Backup was called (the files of a Backup alone)

vars == <<rev, state, db, fs, pc, args, cfg, gz, proc, dataPipe,
          errPipe, stderrOutput, checksum, log, ret, exit, track, reqs, names,
          before>>

\* ------------------------------------------------------------ pure helpers

RECURSIVE SeqsUpTo(_, _)
SeqsUpTo(S, n) ==
    IF n = 0 THEN {<<>>}
    ELSE LET shorter == SeqsUpTo(S, n - 1)
         IN  shorter \cup {Append(s, v) : s \in {t \in shorter : Len(t) = n - 1}, v \in S}

Contents == SeqsUpTo(Vals, MaxRows)

Diags(n) == [i \in 1..n |-> "DIAG"]

Prefixes(s) == {SubSeq(s, 1, n) : n \in 0..Len(s)}

NumDiag(s) == Cardinality({i \in 1..Len(s) : s[i] = "DIAG"})

\* pg_dump of a database: the schema statements, then the rows
FullDump(rows) == <<"SCHEMA">> \o rows

\* pg_dump --data-only --inserts: the session settings, then the rows
DataDump(rows) == <<"SET">> \o rows

\* what psql makes of a database when it executes one statement of a dump:
\* an INSERT adds its row; it fails, as the statements of the schema do
\* when the table exists, once the table holds MaxRows rows
Execute(rows, t) == IF t \in Vals /\ Len(rows) < MaxRows THEN Append(rows, t) ELSE rows

IsRunning(c) == state[c] = "running"

NoProc == [kind |-> "none", script |-> <<>>, code |-> 0, st |-> "none",
           wrote |-> 0, budget |-> 0, closed |-> FALSE]

NilRet == [op |-> "none", err |-> "", cause |-> "", path |-> 0, match |-> FALSE, diag |-> 0]

NilArgs == [name |-> "none", missing |-> FALSE, drop |-> FALSE, file |-> 0, ts |-> 0]

NilCfg == [ContainerName |-> "", BackupPath |-> 0, DropExisting |-> FALSE,
           Timestamp |-> 0, SourceContainer |-> "", TargetContainer |-> ""]

NilGz == [hdr |-> FALSE, bad |-> FALSE, pos |-> 0]


\* the gzip stream of a payload
Gzip(payload) == <<"GZHDR">> \o payload \o <<"GZTRL">>

\* ------------------------------------------------------------------- Init

\* what an artifact directory can hold before a run: nothing, a file that
\* is not gzip, a gzip stream that is damaged part-way, an earlier backup
InitFiles ==
    {NoFile, File(<<"JUNK">>), File(<<"GZHDR", "SCHEMA", "CORRUPT">>)}
        \cup {File(Gzip(FullDump(c))) : c \in Contents}

\* the database of a container that does not run is out of reach, so it
\* is left out; the values of the rows are interchangeable, so the first
\* row of the source is "a"; the artifacts of the later seconds are made
\* by the runs
Init ==
    /\ rev \in {"v1", "v2"}
    /\ state \in [Containers -> {"running", "stopped", "missing"}]
    /\ db \in {d \in [Containers -> {NoDb} \cup {Db(c) : c \in Contents}] :
                  /\ \A c \in Containers : ~IsRunning(c) => d[c] = NoDb
                  /\ d["pg1"].rows # <<>> => d["pg1"].rows[1] = "a"}
    /\ fs \in {f \in [Seconds -> InitFiles] : \A s \in Seconds : s > 1 => f[s] = NoFile}
    /\ pc = "main"
    /\ args = NilArgs
    /\ cfg = NilCfg
    /\ gz = NilGz
    /\ proc = NoProc
    /\ dataPipe = <<>>
    /\ errPipe = 0
    /\ stderrOutput = 0
    /\ checksum = [source |-> <<>>, target |-> <<>>]
    /\ log = <<>>
    /\ ret = NilRet
    /\ exit = 0
    /\ track = [restored |-> FALSE, equal |-> FALSE, writes |-> 0]
    /\ reqs = <<>>
    /\ names = <<>>
    /\ before = <<>>

\* ------------------------------------------------- container runtime gateway

\* what docker can write to its error output before the answer
Warnings == {<<>>, <<"WARNING", "\n">>}

\* docker inspect --format={{.State.Running}}: what CombinedOutput can
\* return, the output of both streams and whether the command failed
Inspect(containerName) ==
    CASE state[containerName] = "missing" ->
             {[output |-> <<"Error: No such object", "\n">>, failed |-> TRUE]}
      [] state[containerName] = "stopped" ->
             {[output |-> w \o <<"false", "\n">>, failed |-> FALSE] : w \in Warnings}
      [] OTHER ->
             {[output |-> w \o <<"true", "\n">>, failed |-> FALSE] : w \in Warnings}

\* strings.TrimSpace: the white space at both ends is cut
TrimSpace(s) ==
    LET keep == {i \in 1..Len(s) : s[i] # "\n"}
    IN  IF keep = {} THEN <<>>
        ELSE SubSeq(s, CHOOSE i \in keep : \A j \in keep : i <= j,
                       CHOOSE i \in keep : \A j \in keep : i >= j)

\* the errors VerifyContainer can return, "" for nil
VerifyContainer(containerName) ==
    {IF r.failed THEN "not found"
     ELSE IF TrimSpace(r.output) # <<"true">> THEN "not running"
     ELSE "" : r \in Inspect(containerName)}

\* --------------------------------------------------------- external tools

\* pg_dump can connect to the database of the container
CanDump(containerName) == IsRunning(containerName) /\ db[containerName].exists

\* what a pg_dump run to its end with CombinedOutput can have done: the
\* tokens it wrote, in order (DIAG, to its error output, no line or one;
\* the others to its standard output), and its exit status
DumpRuns(containerName, dump) ==
    IF ~CanDump(containerName)
    THEN {[script |-> Diags(1), code |-> 1]}
    ELSE {[script |-> Diags(n) \o dump, code |-> 0] : n \in {0, 1}}
         \cup {[script |-> p \o Diags(n), code |-> 1] :
                 p \in Prefixes(dump) \ {dump}, n \in {0, 1}}

\* the pg_dump Backup has started writes the next token of the dump to
\* its standard output, when the pipe has room
ProcWrite ==
    /\ proc.kind = "pg_dump"
    /\ proc.st = "running"
    /\ proc.script # <<>>
    /\ Len(dataPipe) < PipeCap
    /\ dataPipe' = Append(dataPipe, Head(proc.script))
    /\ proc' = [proc EXCEPT !.script = Tail(@)]
    /\ UNCHANGED <<before, reqs, names, rev, state, db, fs, pc, args, cfg, gz, errPipe, stderrOutput,
                   checksum, log, ret, exit, track>>

\* it writes a line to its error output: to /dev/null when Backup made no
\* pipe for it (service.go), into the pipe when it has room, and when the
\* pipe is full the write blocks until a reader makes room
ProcWarn ==
    /\ proc.kind = "pg_dump"
    /\ proc.st \in {"running", "blocked"}
    /\ proc.budget > 0
    /\ IF rev = "v1" \/ errPipe < ErrCap
       THEN /\ errPipe' = IF rev = "v1" THEN errPipe ELSE errPipe + 1
            /\ proc' = [proc EXCEPT !.st = "running", !.wrote = @ + 1,
                                    !.budget = @ - 1]
       ELSE /\ proc.st = "running"
            /\ proc' = [proc EXCEPT !.st = "blocked"]
            /\ UNCHANGED errPipe
    /\ UNCHANGED <<before, reqs, names, rev, state, db, fs, pc, args, cfg, gz, dataPipe, stderrOutput,
                   checksum, log, ret, exit, track>>

\* it exits: zero once it has written the whole dump, non-zero before
\* that or when it could not connect
ProcExit ==
    /\ proc.kind = "pg_dump"
    /\ proc.st = "running"
    /\ proc' = [proc EXCEPT !.st = "exited", !.script = <<>>, !.budget = 0,
                            !.code = IF proc.script # <<>> THEN 1 ELSE @]
    /\ UNCHANGED <<before, reqs, names, rev, state, db, fs, pc, args, cfg, gz, dataPipe, errPipe,
                   stderrOutput, checksum, log, ret, exit, track>>


\* ---------------------------------------------------------- Service.Backup

Ev(c, ok) == [c |-> c, ok |-> ok]

\* where the command that runs goes on when an operation returns
AfterBackup == IF args.name = "test" THEN "runTest_2" ELSE "runBackup_2"

\* the artifact's path: the directory is fixed and there is one database
\* name, so the second of the timestamp names the file
OutputPath(c) == c.Timestamp

BackupRet(path, err, diag) ==
    [op |-> "Backup", err |-> err, cause |-> "", path |-> path, match |-> FALSE, diag |-> diag]

\* gzip.Writer.Close: nothing after a failed write (the error sticks);
\* otherwise the header if no write wrote it, and the trailer, unless the
\* flush fails
GzClose(data, g, ok) ==
    IF g.bad \/ ~ok THEN data
    ELSE data \o (IF g.hdr THEN <<>> ELSE <<"GZHDR">>) \o <<"GZTRL">>

\* the deferred gzWriter.Close() and outFile.Close() of Backup, their
\* errors dropped
BackupDeferred(g, ok) ==
    /\ fs' = [fs EXCEPT ![OutputPath(cfg)] = File(GzClose(@.data, g, ok))]
    /\ log' = log \o <<Ev("gzWriter.Close", ok /\ ~g.bad), Ev("outFile.Close", TRUE)>>

Backup_MkdirAll ==
    /\ pc = "Backup_MkdirAll"
    /\ \E ok \in BOOLEAN :
         /\ log' = Append(log, Ev("MkdirAll", ok))
         /\ IF ok
            THEN pc' = "Backup_Create" /\ UNCHANGED ret
            ELSE /\ pc' = AfterBackup
                 /\ ret' = BackupRet(0, "failed to create output directory", 0)
    /\ UNCHANGED <<before, reqs, names, rev, state, db, fs, args, cfg, gz, proc, dataPipe, errPipe,
                   stderrOutput, checksum, exit, track>>

\* os.Create truncates the file when it exists
Backup_Create ==
    /\ pc = "Backup_Create"
    /\ \E ok \in BOOLEAN :
         /\ log' = Append(log, Ev("os.Create", ok))
         /\ IF ok
            THEN /\ fs' = [fs EXCEPT ![OutputPath(cfg)] = File(<<>>)]
                 /\ gz' = NilGz
                 /\ pc' = "Backup_Start"
                 /\ UNCHANGED ret
            ELSE /\ pc' = AfterBackup
                 /\ ret' = BackupRet(0, "failed to create output file", 0)
                 /\ UNCHANGED <<fs, gz>>
    /\ UNCHANGED <<before, reqs, names, rev, state, db, args, cfg, proc, dataPipe, errPipe,
                   stderrOutput, checksum, exit, track>>

\* the errors StdoutPipe, StderrPipe and Start can return; Backup of
\* service.go makes no pipe for the error output
StartErrors ==
    {"failed to create stdout pipe", "failed to start pg_dump"}
        \cup (IF rev = "v2" THEN {"failed to create stderr pipe"} ELSE {})

Backup_Start ==
    /\ pc = "Backup_Start"
    /\ \/ /\ proc' = IF CanDump(cfg.ContainerName)
                      THEN [NoProc EXCEPT !.kind = "pg_dump", !.st = "running",
                                          !.script = FullDump(db[cfg.ContainerName].rows),
                                          !.budget = MaxDiag]
                      ELSE [NoProc EXCEPT !.kind = "pg_dump", !.st = "running",
                                          !.code = 1, !.budget = 1]
          /\ log' = Append(log, Ev("pg_dump", TRUE))
          /\ pc' = "Backup_Copy"
          /\ UNCHANGED <<fs, ret>>
       \/ \E e \in StartErrors, closeOk \in BOOLEAN :
            /\ BackupDeferred(gz, closeOk)
            /\ ret' = BackupRet(0, e, 0)
            /\ pc' = AfterBackup
            /\ UNCHANGED proc
    /\ UNCHANGED <<before, reqs, names, rev, state, db, args, cfg, gz, dataPipe, errPipe,
                   stderrOutput, checksum, exit, track>>

\* one round of io.Copy(gzWriter, stdout): a token read from the pipe is
\* written through the compressor to the file, or the write fails
Backup_Copy ==
    /\ pc = "Backup_Copy"
    /\ dataPipe # <<>>
    /\ dataPipe' = Tail(dataPipe)
    /\ \/ /\ gz' = [gz EXCEPT !.hdr = TRUE]
          /\ fs' = [fs EXCEPT ![OutputPath(cfg)] =
                       File(@.data \o (IF gz.hdr THEN <<>> ELSE <<"GZHDR">>)
                                   \o <<Head(dataPipe)>>)]
          /\ UNCHANGED <<pc, ret, log>>
       \/ /\ gz' = [gz EXCEPT !.bad = TRUE]
          /\ BackupDeferred(gz', TRUE)
          /\ ret' = BackupRet(0, "failed to write backup", 0)
          /\ pc' = AfterBackup
    /\ UNCHANGED <<before, reqs, names, rev, state, db, args, cfg, proc, errPipe, stderrOutput,
                   checksum, exit, track>>

\* io.Copy returns at the end of the stream: the process has closed its
\* standard output and the pipe is empty
Backup_CopyEOF ==
    /\ pc = "Backup_Copy"
    /\ dataPipe = <<>>
    /\ proc.st = "exited"
    /\ pc' = IF rev = "v2" THEN "Backup_ReadAll" ELSE "Backup_Wait"
    /\ UNCHANGED <<before, reqs, names, rev, state, db, fs, args, cfg, gz, proc, dataPipe, errPipe,
                   stderrOutput, checksum, log, ret, exit, track>>

\* io.ReadAll(stderr), after the copy: the lines in the pipe, until the
\* process has closed its error output
Backup_ReadAll ==
    /\ pc = "Backup_ReadAll"
    /\ IF errPipe > 0
       THEN /\ stderrOutput' = stderrOutput + errPipe
            /\ errPipe' = 0
            /\ UNCHANGED pc
       ELSE /\ proc.st = "exited"
            /\ pc' = "Backup_Wait"
            /\ UNCHANGED <<stderrOutput, errPipe>>
    /\ UNCHANGED <<before, reqs, names, rev, state, db, fs, args, cfg, gz, proc, dataPipe,
                   checksum, log, ret, exit, track>>

\* cmd.Wait and the two returns after it
Backup_Wait ==
    /\ pc = "Backup_Wait"
    /\ proc.st = "exited"
    /\ proc' = [proc EXCEPT !.st = "reaped"]
    /\ ret' = IF proc.code # 0
              THEN BackupRet(0, "pg_dump failed", stderrOutput)
              ELSE BackupRet(OutputPath(cfg), "", 0)
    /\ \E closeOk \in BOOLEAN :
         /\ fs' = [fs EXCEPT ![OutputPath(cfg)] = File(GzClose(@.data, gz, closeOk))]
         /\ log' = log \o <<Ev("Wait", proc.code = 0),
                            Ev("gzWriter.Close", closeOk /\ ~gz.bad),
                            Ev("outFile.Close", TRUE)>>
    /\ pc' = AfterBackup
    /\ UNCHANGED <<before, reqs, names, rev, state, db, args, cfg, gz, dataPipe, errPipe,
                   stderrOutput, checksum, exit, track>>

\* --------------------------------------------------------- Service.Restore

AfterRestore == IF args.name = "test" THEN "runTest_3" ELSE "runRestore_2"

RestoreRet(err, diag) ==
    [op |-> "Restore", err |-> err, cause |-> "", path |-> 0, match |-> FALSE, diag |-> diag]

NoTrack == [restored |-> FALSE, equal |-> FALSE, writes |-> 0]

Restore_VerifyContainer ==
    /\ pc = "Restore_VerifyContainer"
    /\ track' = NoTrack
    /\ \E e \in VerifyContainer(cfg.ContainerName) :
         /\ log' = Append(log, Ev("inspect", e = ""))
         /\ IF e # ""
            THEN /\ ret' = [RestoreRet("container verification failed", 0)
                              EXCEPT !.cause = e]
                 /\ pc' = AfterRestore
            ELSE /\ pc' = "Restore_Open"
                 /\ UNCHANGED ret
    /\ UNCHANGED <<before, reqs, names, rev, state, db, fs, args, cfg, gz, proc, dataPipe, errPipe,
                   stderrOutput, checksum, exit>>

Restore_Open ==
    /\ pc = "Restore_Open"
    /\ log' = Append(log, Ev("os.Open", fs[cfg.BackupPath].exists))
    /\ IF ~fs[cfg.BackupPath].exists
       THEN /\ ret' = RestoreRet("failed to open backup file", 0)
            /\ pc' = AfterRestore
       ELSE /\ pc' = "Restore_NewReader"
            /\ UNCHANGED ret
    /\ UNCHANGED <<before, reqs, names, rev, state, db, fs, args, cfg, gz, proc, dataPipe, errPipe,
                   stderrOutput, checksum, exit, track>>

\* gzip.NewReader reads the header of the stream
HeaderOk(data) == Len(data) >= 1 /\ data[1] = "GZHDR"

\* Restore_NewReader as it would be if the reader's error were looked at
\* only after the database had been prepared
Restore_NewReader_Late ==
    /\ pc = "Restore_NewReader"
    /\ log' = Append(log, Ev("gzip.NewReader", HeaderOk(fs[cfg.BackupPath].data)))
    /\ gz' = [NilGz EXCEPT !.pos = 1]
    /\ pc' = "Restore_Drop"
    /\ UNCHANGED <<before, reqs, names, rev, state, db, fs, args, cfg, proc, dataPipe, errPipe,
                   stderrOutput, checksum, ret, exit, track>>

Restore_NewReader ==
    /\ pc = "Restore_NewReader"
    /\ log' = Append(log, Ev("gzip.NewReader", HeaderOk(fs[cfg.BackupPath].data)))
    /\ IF ~HeaderOk(fs[cfg.BackupPath].data)
       THEN /\ ret' = RestoreRet("failed to create gzip reader", 0)
            /\ pc' = AfterRestore
            /\ UNCHANGED gz
       ELSE /\ gz' = [NilGz EXCEPT !.pos = 1]
            /\ pc' = "Restore_Drop"
            /\ UNCHANGED ret
    /\ UNCHANGED <<before, reqs, names, rev, state, db, fs, args, cfg, proc, dataPipe, errPipe,
                   stderrOutput, checksum, exit, track>>

\* Restore_Drop as it would be if a failed drop were not fatal
Restore_Drop_NotFatal ==
    /\ pc = "Restore_Drop"
    /\ IF ~cfg.DropExisting
       THEN /\ pc' = "Restore_Create"
            /\ UNCHANGED <<db, log, ret>>
       ELSE \E ok \in BOOLEAN :
            /\ log' = Append(log, Ev("drop", ok))
            /\ db' = IF ok THEN [db EXCEPT ![cfg.ContainerName] = NoDb] ELSE db
            /\ pc' = "Restore_Create"
            /\ UNCHANGED ret
    /\ UNCHANGED <<before, reqs, names, rev, state, fs, args, cfg, gz, proc, dataPipe, errPipe,
                   stderrOutput, checksum, exit, track>>

\* DROP DATABASE IF EXISTS, when cfg.DropExisting: it drops the database,
\* or fails (sessions connected to it, a user without the right)
Restore_Drop ==
    /\ pc = "Restore_Drop"
    /\ IF ~cfg.DropExisting
       THEN /\ pc' = "Restore_Create"
            /\ UNCHANGED <<db, log, ret>>
       ELSE \E ok \in BOOLEAN :
            /\ log' = Append(log, Ev("drop", ok))
            /\ IF ok
               THEN /\ db' = [db EXCEPT ![cfg.ContainerName] = NoDb]
                    /\ pc' = "Restore_Create"
                    /\ UNCHANGED ret
               ELSE /\ ret' = RestoreRet("failed to drop database", 0)
                    /\ pc' = AfterRestore
                    /\ UNCHANGED db
    /\ UNCHANGED <<before, reqs, names, rev, state, fs, args, cfg, gz, proc, dataPipe, errPipe,
                   stderrOutput, checksum, exit, track>>

\* Restore_Create as it would be if a failed create were fatal whatever
\* cfg.DropExisting
Restore_Create_AlwaysFatal ==
    /\ pc = "Restore_Create"
    /\ \E ok \in (IF db[cfg.ContainerName].exists THEN {FALSE} ELSE BOOLEAN) :
         /\ log' = Append(log, Ev("create", ok))
         /\ db' = IF ok THEN [db EXCEPT ![cfg.ContainerName] = Db(<<>>)] ELSE db
         /\ IF ~ok
            THEN /\ ret' = RestoreRet("failed to create database", 0)
                 /\ pc' = AfterRestore
            ELSE /\ pc' = "Restore_Start"
                 /\ UNCHANGED ret
    /\ UNCHANGED <<before, reqs, names, rev, state, fs, args, cfg, gz, proc, dataPipe, errPipe,
                   stderrOutput, checksum, exit, track>>

\* CREATE DATABASE: it fails when the database exists, and can fail when it
\* does not (a user without the right); a failure is fatal only with
\* cfg.DropExisting
Restore_Create ==
    /\ pc = "Restore_Create"
    /\ \E ok \in (IF db[cfg.ContainerName].exists THEN {FALSE} ELSE BOOLEAN) :
         /\ log' = Append(log, Ev("create", ok))
         /\ db' = IF ok THEN [db EXCEPT ![cfg.ContainerName] = Db(<<>>)] ELSE db
         /\ IF ~ok /\ cfg.DropExisting
            THEN /\ ret' = RestoreRet("failed to create database", 0)
                 /\ pc' = AfterRestore
            ELSE /\ pc' = "Restore_Start"
                 /\ UNCHANGED ret
    /\ UNCHANGED <<before, reqs, names, rev, state, fs, args, cfg, gz, proc, dataPipe, errPipe,
                   stderrOutput, checksum, exit, track>>

\* what a psql started with docker exec -i can do: it executes what it
\* reads and exits 0 at the end of its input (a statement that fails is
\* reported on its error output and does not stop it), or it cannot
\* connect, says so and exits 2
PsqlRuns(containerName) ==
    {[script |-> Diags(n), code |-> 2, budget |-> 0] : n \in 1..MaxDiag}
        \cup (IF db[containerName].exists
              THEN {[script |-> <<>>, code |-> 0, budget |-> MaxDiag]}
              ELSE {})

RestoreStartErrors ==
    {"failed to create stdin pipe", "failed to create stderr pipe", "failed to start restore"}

Restore_Start ==
    /\ pc = "Restore_Start"
    /\ \/ \E r \in PsqlRuns(cfg.ContainerName) :
            /\ proc' = [NoProc EXCEPT !.kind = "psql", !.script = r.script,
                                      !.code = r.code, !.budget = r.budget,
                                      !.st = "running"]
            /\ log' = Append(log, Ev("psql", TRUE))
            /\ pc' = "Restore_Copy"
            /\ UNCHANGED ret
       \/ \E e \in RestoreStartErrors :
            /\ ret' = RestoreRet(e, 0)
            /\ pc' = AfterRestore
            /\ UNCHANGED <<proc, log>>
    /\ dataPipe' = <<>>
    /\ errPipe' = 0
    /\ stderrOutput' = 0
    /\ UNCHANGED <<before, reqs, names, rev, state, db, fs, args, cfg, gz, checksum, exit, track>>

\* psql writes a line to its error output, when the pipe has room
PsqlWrite ==
    /\ proc.kind = "psql"
    /\ proc.st = "running"
    /\ proc.script # <<>>
    /\ errPipe < ErrCap
    /\ errPipe' = errPipe + 1
    /\ proc' = [proc EXCEPT !.script = Tail(@), !.wrote = @ + 1]
    /\ UNCHANGED <<before, reqs, names, rev, state, db, fs, pc, args, cfg, gz, dataPipe,
                   stderrOutput, checksum, log, ret, exit, track>>

\* psql reads a statement from its input and executes it; it may have
\* lines to write to its error output before it reads again
PsqlRead ==
    /\ proc.kind = "psql"
    /\ proc.st = "running"
    /\ proc.code = 0
    /\ proc.script = <<>>
    /\ dataPipe # <<>>
    /\ dataPipe' = Tail(dataPipe)
    /\ db' = [db EXCEPT ![cfg.ContainerName] = Db(Execute(@.rows, Head(dataPipe)))]
    /\ \E n \in 0..proc.budget :
         proc' = [proc EXCEPT !.script = Diags(n), !.budget = @ - n]
    /\ UNCHANGED <<before, reqs, names, rev, state, fs, pc, args, cfg, gz, errPipe, stderrOutput,
                   checksum, log, ret, exit, track>>

\* psql exits: at the end of its input, or once it has said why it
\* cannot connect
PsqlExit ==
    /\ proc.kind = "psql"
    /\ proc.st = "running"
    /\ proc.script = <<>>
    /\ proc.code # 0 \/ (dataPipe = <<>> /\ proc.closed)
    /\ proc' = [proc EXCEPT !.st = "exited"]
    /\ UNCHANGED <<before, reqs, names, rev, state, db, fs, pc, args, cfg, gz, dataPipe, errPipe,
                   stderrOutput, checksum, log, ret, exit, track>>

\* the statements of a dump, as the decompressor yields them
Payload == Vals \cup {"SCHEMA"}

\* Restore_Copy as it would be if a stream that is damaged or cut short
\* were taken for the end of the dump
Restore_Copy_Tolerant ==
    /\ pc = "Restore_Copy"
    /\ LET data == fs[cfg.BackupPath].data
           next == gz.pos + 1
       IN  IF next > Len(data) \/ data[next] \notin Payload
           THEN /\ proc' = [proc EXCEPT !.closed = TRUE]
                /\ pc' = "Restore_ReadAll"
                /\ UNCHANGED <<gz, dataPipe, ret>>
           ELSE IF proc.st = "exited"
           THEN /\ ret' = RestoreRet("failed to restore backup", 0)
                /\ pc' = AfterRestore
                /\ UNCHANGED <<gz, proc, dataPipe>>
           ELSE /\ Len(dataPipe) < PipeCap
                /\ dataPipe' = Append(dataPipe, data[next])
                /\ gz' = [gz EXCEPT !.pos = next]
                /\ UNCHANGED <<pc, proc, ret>>
    /\ UNCHANGED <<before, reqs, names, rev, state, db, fs, args, cfg, errPipe, stderrOutput,
                   checksum, log, exit, track>>

\* one round of io.Copy(stdin, gzReader), and stdin.Close() after it: the
\* decompressor yields a token, which is written to the pipe; or it fails
\* (the stream ends before its trailer, or is damaged); or the write fails
\* (psql has exited); or the stream ends
Restore_Copy ==
    /\ pc = "Restore_Copy"
    /\ LET data == fs[cfg.BackupPath].data
           next == gz.pos + 1
       IN  IF next > Len(data) \/ (data[next] \notin Payload /\ data[next] # "GZTRL")
           THEN /\ ret' = RestoreRet("failed to restore backup", 0)
                /\ pc' = AfterRestore
                /\ UNCHANGED <<gz, proc, dataPipe>>
           ELSE IF data[next] = "GZTRL"
           THEN /\ proc' = [proc EXCEPT !.closed = TRUE]
                /\ pc' = "Restore_ReadAll"
                /\ UNCHANGED <<gz, dataPipe, ret>>
           ELSE IF proc.st = "exited"
           THEN /\ ret' = RestoreRet("failed to restore backup", 0)
                /\ pc' = AfterRestore
                /\ UNCHANGED <<gz, proc, dataPipe>>
           ELSE /\ Len(dataPipe) < PipeCap
                /\ dataPipe' = Append(dataPipe, data[next])
                /\ gz' = [gz EXCEPT !.pos = next]
                /\ UNCHANGED <<pc, proc, ret>>
    /\ UNCHANGED <<before, reqs, names, rev, state, db, fs, args, cfg, errPipe, stderrOutput,
                   checksum, log, exit, track>>

\* io.ReadAll(stderr), after the copy
Restore_ReadAll ==
    /\ pc = "Restore_ReadAll"
    /\ IF errPipe > 0
       THEN /\ stderrOutput' = stderrOutput + errPipe
            /\ errPipe' = 0
            /\ UNCHANGED pc
       ELSE /\ proc.st = "exited"
            /\ pc' = "Restore_Wait"
            /\ UNCHANGED <<stderrOutput, errPipe>>
    /\ UNCHANGED <<before, reqs, names, rev, state, db, fs, args, cfg, gz, proc, dataPipe,
                   checksum, log, ret, exit, track>>

\* restoreCmd.Wait and the returns after it
Restore_Wait ==
    /\ pc = "Restore_Wait"
    /\ proc.st = "exited"
    /\ proc' = [proc EXCEPT !.st = "reaped"]
    /\ log' = Append(log, Ev("Wait", proc.code = 0))
    /\ ret' = IF proc.code # 0
              THEN RestoreRet("restore failed", stderrOutput)
              ELSE RestoreRet("", 0)
    /\ track' = IF proc.code # 0 THEN NoTrack
                ELSE [restored |-> TRUE, equal |-> db["pg1"] = db["pg2"], writes |-> 0]
    /\ pc' = AfterRestore
    /\ UNCHANGED <<before, reqs, names, rev, state, db, fs, args, cfg, gz, dataPipe, errPipe,
                   stderrOutput, checksum, exit>>

\* ---------------------------------------------------------- Service.Verify

AfterVerify == IF args.name = "test" THEN "runTest_4" ELSE "runVerify_2"

VerifyRet(match, err, diag) ==
    [op |-> "Verify", err |-> err, cause |-> "", path |-> 0, match |-> match, diag |-> diag]

\* the bytes of the tokens a dump can hold
TokCode(t) ==
    CASE t = "SET" -> 1
      [] t = "DIAG" -> 2
      [] t = "a" -> 3
      [] t = "b" -> 4
      [] OTHER -> 5

\* md5.Sum: a digest of fixed width.  The width is narrowed from 128 bits
\* to 24; no two streams within the bounds of the model collide, as no two
\* streams of a database are known to collide in MD5.
HashMod == 2 ^ 24
HashBase == 2 * 3

RECURSIVE md5Sum(_)
md5Sum(output) ==
    IF output = <<>> THEN 0
    ELSE (md5Sum(SubSeq(output, 1, Len(output) - 1)) * HashBase
             + TokCode(output[Len(output)])) % HashMod

\* fmt.Sprintf("%x", hash): the hexadecimal digits of the digest
RECURSIVE Hex(_)
Hex(n) == IF n < 16 THEN <<n>> ELSE Hex(n \div 16) \o <<n % 16>>

\* getDatabaseChecksum, for one run r of pg_dump --data-only --inserts:
\* CombinedOutput returns what the process wrote to its standard output and
\* to its error output, in the order it wrote it
getDatabaseChecksum(r) ==
    IF r.code # 0
    THEN [sum |-> <<>>, err |-> "failed to dump database for checksum",
          diag |-> NumDiag(r.script)]
    ELSE [sum |-> Hex(md5Sum(r.script)), err |-> "", diag |-> 0]

Verify_SourceContainer ==
    /\ pc = "Verify_SourceContainer"
    /\ \E e \in VerifyContainer(cfg.SourceContainer) :
         /\ log' = Append(log, Ev("inspect", e = ""))
         /\ IF e # ""
            THEN /\ ret' = [VerifyRet(FALSE, "source container verification failed", 0)
                              EXCEPT !.cause = e]
                 /\ pc' = AfterVerify
            ELSE /\ pc' = "Verify_TargetContainer"
                 /\ UNCHANGED ret
    /\ checksum' = [source |-> <<>>, target |-> <<>>]
    /\ UNCHANGED <<before, reqs, names, rev, state, db, fs, args, cfg, gz, proc, dataPipe, errPipe,
                   stderrOutput, exit, track>>

Verify_TargetContainer ==
    /\ pc = "Verify_TargetContainer"
    /\ \E e \in VerifyContainer(cfg.TargetContainer) :
         /\ log' = Append(log, Ev("inspect", e = ""))
         /\ IF e # ""
            THEN /\ ret' = [VerifyRet(FALSE, "target container verification failed", 0)
                              EXCEPT !.cause = e]
                 /\ pc' = AfterVerify
            ELSE /\ pc' = "Verify_SourceChecksum"
                 /\ UNCHANGED ret
    /\ UNCHANGED <<before, reqs, names, rev, state, db, fs, args, cfg, gz, proc, dataPipe, errPipe,
                   stderrOutput, checksum, exit, track>>

\* Verify_SourceChecksum as it would be if a failed dump of the source were
\* run again
Verify_SourceChecksum_Retry ==
    /\ pc = "Verify_SourceChecksum"
    /\ \E r \in DumpRuns(cfg.SourceContainer, DataDump(db[cfg.SourceContainer].rows)) :
         LET c == getDatabaseChecksum(r)
         IN  /\ log' = Append(log, Ev("pg_dump source", c.err = ""))
             /\ IF c.err # ""
                THEN UNCHANGED <<pc, checksum, ret>>
                ELSE /\ checksum' = [checksum EXCEPT !.source = c.sum]
                     /\ pc' = "Verify_TargetChecksum"
                     /\ UNCHANGED ret
    /\ UNCHANGED <<before, reqs, names, rev, state, db, fs, args, cfg, gz, proc, dataPipe, errPipe,
                   stderrOutput, exit, track>>

Verify_SourceChecksum ==
    /\ pc = "Verify_SourceChecksum"
    /\ \E r \in DumpRuns(cfg.SourceContainer, DataDump(db[cfg.SourceContainer].rows)) :
         LET c == getDatabaseChecksum(r)
         IN  /\ log' = Append(log, Ev("pg_dump source", c.err = ""))
             /\ IF c.err # ""
                THEN /\ ret' = VerifyRet(FALSE, "failed to get source checksum", c.diag)
                     /\ pc' = AfterVerify
                     /\ UNCHANGED checksum
                ELSE /\ checksum' = [checksum EXCEPT !.source = c.sum]
                     /\ pc' = "Verify_TargetChecksum"
                     /\ UNCHANGED ret
    /\ UNCHANGED <<before, reqs, names, rev, state, db, fs, args, cfg, gz, proc, dataPipe, errPipe,
                   stderrOutput, exit, track>>

\* Verify_TargetChecksum as it would be if a failed dump of the target
\* counted as a mismatch
Verify_TargetChecksum_Mismatch ==
    /\ pc = "Verify_TargetChecksum"
    /\ \E r \in DumpRuns(cfg.TargetContainer, DataDump(db[cfg.TargetContainer].rows)) :
         LET c == getDatabaseChecksum(r)
         IN  /\ log' = Append(log, Ev("pg_dump target", c.err = ""))
             /\ checksum' = [checksum EXCEPT !.target = c.sum]
             /\ ret' = VerifyRet(c.err = "" /\ checksum.source = c.sum, "", 0)
             /\ pc' = AfterVerify
    /\ UNCHANGED <<before, reqs, names, rev, state, db, fs, args, cfg, gz, proc, dataPipe, errPipe,
                   stderrOutput, exit, track>>

\* Verify_TargetChecksum as it would be if it dumped the source again
Verify_TargetChecksum_Source ==
    /\ pc = "Verify_TargetChecksum"
    /\ \E r \in DumpRuns(cfg.SourceContainer, DataDump(db[cfg.SourceContainer].rows)) :
         LET c == getDatabaseChecksum(r)
         IN  /\ log' = Append(log, Ev("pg_dump target", c.err = ""))
             /\ checksum' = [checksum EXCEPT !.target = c.sum]
             /\ ret' = IF c.err # ""
                       THEN VerifyRet(FALSE, "failed to get target checksum", c.diag)
                       ELSE VerifyRet(checksum.source = c.sum, "", 0)
             /\ pc' = AfterVerify
    /\ UNCHANGED <<before, reqs, names, rev, state, db, fs, args, cfg, gz, proc, dataPipe, errPipe,
                   stderrOutput, exit, track>>

Verify_TargetChecksum ==
    /\ pc = "Verify_TargetChecksum"
    /\ \E r \in DumpRuns(cfg.TargetContainer, DataDump(db[cfg.TargetContainer].rows)) :
         LET c == getDatabaseChecksum(r)
         IN  /\ log' = Append(log, Ev("pg_dump target", c.err = ""))
             /\ checksum' = [checksum EXCEPT !.target = c.sum]
             /\ ret' = IF c.err # ""
                       THEN VerifyRet(FALSE, "failed to get target checksum", c.diag)
                       ELSE VerifyRet(checksum.source = c.sum, "", 0)
             /\ pc' = AfterVerify
    /\ UNCHANGED <<before, reqs, names, rev, state, db, fs, args, cfg, gz, proc, dataPipe, errPipe,
                   stderrOutput, exit, track>>

\* ------------------------------------------------------------ the commands

\* os.Exit, or the return of main: the status is what is left of the run
Exit(status) ==
    /\ exit' = status
    /\ pc' = "exit"
    /\ args' = [NilArgs EXCEPT !.name = args.name]
    /\ cfg' = NilCfg
    /\ gz' = NilGz
    /\ proc' = NoProc
    /\ dataPipe' = <<>>
    /\ errPipe' = 0
    /\ stderrOutput' = 0
    /\ checksum' = [source |-> <<>>, target |-> <<>>]
    /\ log' = <<>>
    /\ ret' = NilRet

\* an operation of the service is called: what the one before it, if
\* any, left in its frame is gone
Call(c, first, name) ==
    /\ cfg' = c
    /\ pc' = first
    /\ log' = Append(log, Ev(name, TRUE))
    /\ gz' = NilGz
    /\ proc' = NoProc
    /\ dataPipe' = <<>>
    /\ errPipe' = 0
    /\ stderrOutput' = 0
    /\ ret' = NilRet
    /\ UNCHANGED <<args, checksum, exit>>

Commands == IF rev = "v1" THEN {"backup"} ELSE {"backup", "restore", "verify", "test"}

\* the function main dispatches a command to
RunOf(name) ==
    CASE name = "backup" -> "runBackup"
      [] name = "restore" -> "runRestore"
      [] name = "verify" -> "runVerify"
      [] OTHER -> "runTest"

\* main: the command of os.Args[1], with its flags (a required one may
\* be missing) and the time of the run; help, a command main does not
\* know, and no command at all end the run in main
main ==
    /\ pc = "main"
    /\ \/ \E name \in Commands, drop \in BOOLEAN, file \in Seconds, ts \in Seconds :
            /\ args' = [name |-> name,
                        missing |-> FALSE,
                        drop |-> IF name = "restore" THEN drop ELSE FALSE,
                        file |-> IF name = "restore" THEN file ELSE 0,
                        ts |-> IF name \in {"backup", "test"} THEN ts ELSE 0]
            /\ pc' = RunOf(name)
            /\ UNCHANGED exit
       \/ \E name \in Commands :
            /\ args' = [NilArgs EXCEPT !.name = name, !.missing = TRUE]
            /\ pc' = RunOf(name)
            /\ UNCHANGED exit
       \/ \E name \in {"help", "unknown", "nocommand"} :
            /\ args' = [NilArgs EXCEPT !.name = name]
            /\ pc' = "exit"
            /\ exit' = IF name = "help" THEN 0 ELSE 1
    /\ UNCHANGED <<before, reqs, names, rev, state, db, fs, cfg, gz, proc, dataPipe, errPipe,
                   stderrOutput, checksum, log, ret, track>>

\* runBackup: the container is verified, then backed up
runBackup ==
    /\ pc = "runBackup"
    /\ \E e \in VerifyContainer("pg1") :
         IF args.missing \/ e # ""
         THEN Exit(1)
         ELSE /\ cfg' = [NilCfg EXCEPT !.ContainerName = "pg1", !.Timestamp = args.ts]
              /\ pc' = "Backup_MkdirAll"
              /\ log' = log \o <<Ev("inspect", TRUE), Ev("Backup", TRUE)>>
              /\ UNCHANGED <<args, gz, proc, dataPipe, errPipe, stderrOutput,
                             checksum, ret, exit>>
    /\ UNCHANGED <<before, reqs, names, rev, state, db, fs, track>>

runBackup_2 ==
    /\ pc = "runBackup_2"
    /\ Exit(IF ret.err # "" THEN 1 ELSE 0)
    /\ UNCHANGED <<before, reqs, names, rev, state, db, fs, track>>

\* runRestore: the backup of --file is restored into the container
runRestore ==
    /\ pc = "runRestore"
    /\ IF args.missing
       THEN Exit(1)
       ELSE Call([NilCfg EXCEPT !.ContainerName = "pg2", !.BackupPath = args.file,
                                !.DropExisting = args.drop],
                 "Restore_VerifyContainer", "Restore")
    /\ UNCHANGED <<before, reqs, names, rev, state, db, fs, track>>

runRestore_2 ==
    /\ pc = "runRestore_2"
    /\ Exit(IF ret.err # "" THEN 1 ELSE 0)
    /\ UNCHANGED <<before, reqs, names, rev, state, db, fs, track>>

\* runVerify: the databases of --source and --target are compared; the
\* target can be the source itself
runVerify ==
    /\ pc = "runVerify"
    /\ IF args.missing
       THEN Exit(1)
       ELSE \E target \in Containers :
              Call([NilCfg EXCEPT !.SourceContainer = "pg1", !.TargetContainer = target],
                   "Verify_SourceContainer", "Verify")
    /\ UNCHANGED <<before, reqs, names, rev, state, db, fs, track>>

runVerify_2 ==
    /\ pc = "runVerify_2"
    /\ Exit(IF ret.err # "" \/ ~ret.match THEN 1 ELSE 0)
    /\ UNCHANGED <<before, reqs, names, rev, state, db, fs, track>>

\* runTest, step 1: the source is backed up
runTest ==
    /\ pc = "runTest"
    /\ IF args.missing
       THEN Exit(1)
       ELSE Call([NilCfg EXCEPT !.ContainerName = "pg1", !.Timestamp = args.ts],
                 "Backup_MkdirAll", "Backup")
    /\ UNCHANGED <<before, reqs, names, rev, state, db, fs, track>>

\* runTest, step 2, were the error of Backup not looked at
runTest_2_Unchecked ==
    /\ pc = "runTest_2"
    /\ Call([NilCfg EXCEPT !.ContainerName = "pg2", !.BackupPath = ret.path,
                           !.DropExisting = TRUE],
            "Restore_VerifyContainer", "Restore")
    /\ UNCHANGED <<before, reqs, names, rev, state, db, fs, track>>

\* runTest, step 2: the backup is restored into the target, which is
\* dropped first
runTest_2 ==
    /\ pc = "runTest_2"
    /\ IF ret.err # ""
       THEN Exit(1)
       ELSE Call([NilCfg EXCEPT !.ContainerName = "pg2", !.BackupPath = ret.path,
                                !.DropExisting = TRUE],
                 "Restore_VerifyContainer", "Restore")
    /\ UNCHANGED <<before, reqs, names, rev, state, db, fs, track>>

\* runTest, step 3: the source and the target are compared
runTest_3 ==
    /\ pc = "runTest_3"
    /\ IF ret.err # ""
       THEN Exit(1)
       ELSE Call([NilCfg EXCEPT !.SourceContainer = "pg1", !.TargetContainer = "pg2"],
                 "Verify_SourceContainer", "Verify")
    /\ UNCHANGED <<before, reqs, names, rev, state, db, fs, track>>

runTest_4 ==
    /\ pc = "runTest_4"
    /\ Exit(IF ret.err # "" \/ ~ret.match THEN 1 ELSE 0)
    /\ UNCHANGED <<before, reqs, names, rev, state, db, fs, track>>

\* between two runs that follow a Restore, a client of the target's
\* database changes a row
Mutate ==
    /\ pc = "main"
    /\ track.restored
    /\ track.writes < MaxWrites
    /\ db["pg2"].exists
    /\ \E i \in 1..Len(db["pg2"].rows) :
         \E v \in Vals \ {db["pg2"].rows[i]} :
           db' = [db EXCEPT !["pg2"] = Db([@.rows EXCEPT ![i] = v])]
    /\ track' = [track EXCEPT !.writes = @ + 1]
    /\ UNCHANGED <<before, reqs, names, rev, state, fs, pc, args, cfg, gz, proc, dataPipe, errPipe,
                   stderrOutput, checksum, log, ret, exit>>

\* the run is over; the next run of the program starts afresh, with the
\* containers, the databases and the files as the last run left them
NextRun ==
    /\ pc = "exit"
    /\ pc' = "main"
    /\ args' = NilArgs
    /\ exit' = 0
    /\ UNCHANGED <<before, reqs, names, rev, state, db, fs, cfg, gz, proc, dataPipe, errPipe,
                   stderrOutput, checksum, log, ret, track>>

Next ==
    \/ main
    \/ runBackup
    \/ runBackup_2
    \/ Backup_MkdirAll
    \/ Backup_Create
    \/ Backup_Start
    \/ Backup_Copy
    \/ Backup_CopyEOF
    \/ Backup_ReadAll
    \/ Backup_Wait
    \/ ProcWrite
    \/ ProcWarn
    \/ ProcExit
    \/ runRestore
    \/ runRestore_2
    \/ Restore_VerifyContainer
    \/ Restore_Open
    \/ Restore_NewReader
    \/ Restore_Drop
    \/ Restore_Create
    \/ Restore_Start
    \/ Restore_Copy
    \/ Restore_ReadAll
    \/ Restore_Wait
    \/ PsqlWrite
    \/ PsqlRead
    \/ PsqlExit
    \/ runVerify
    \/ runVerify_2
    \/ Verify_SourceContainer
    \/ Verify_TargetContainer
    \/ Verify_SourceChecksum
    \/ Verify_TargetChecksum
    \/ runTest
    \/ runTest_2
    \/ runTest_3
    \/ runTest_4
    \/ Mutate
    \/ NextRun

Spec == Init /\ [][Next]_vars


\* ------------------------------------------------- the name of the artifact

\* the database names of the requests, as their characters
DatabaseNames == {<<"a">>, <<"b">>, <<"a", "_", "1">>}

\* the offsets from UTC, in seconds, of the locations a time.Time can
\* have: UTC, and a zone one hour east of it (or the hour of daylight
\* saving of the local zone)
Offsets == {0, 3600}

\* the instants of the requests, in seconds since the epoch: two seconds
\* that follow each other, now and one hour and one day later
Instants == {d * 86400 + h * 3600 + n : d \in 0..1, h \in 0..1, n \in 0..1}

Timestamps == [unix : Instants, offset : Offsets]

Digit(n) == <<"0", "1", "2", "3", "4", "5", "6", "7", "8", "9">>[n + 1]

\* a number in two digits
Pad2(n) == <<Digit((n \div 10) % 10), Digit(n % 10)>>

\* time.Time.Format("2006_01_02_15_04_05"): the fields of the wall clock
\* that t.Location() shows at the instant t, in the first days of 1970
Format(t) ==
    LET wall == t.unix + t.offset
    IN  <<"1", "9", "7", "0">> \o <<"_">> \o Pad2(1) \o <<"_">>
            \o Pad2(1 + wall \div 86400) \o <<"_">>
            \o Pad2((wall \div 3600) % 24) \o <<"_">>
            \o Pad2((wall \div 60) % 60) \o <<"_">>
            \o Pad2(wall % 60)

\* fmt.Sprintf("%s_%s.sql.gz", cfg.DatabaseName, cfg.Timestamp.Format(..))
Filename(r) == r.DatabaseName \o <<"_">> \o Format(r.Timestamp) \o <<".sql.gz">>

\* two requests with the same output directory
InitNames ==
    /\ reqs \in [1..2 -> [DatabaseName : DatabaseNames, Timestamp : Timestamps]]
    /\ names = <<>>
    /\ rev = "v2"
    /\ state = [c \in Containers |-> "running"]
    /\ db = [c \in Containers |-> Db(<<>>)]
    /\ fs = [s \in Seconds |-> NoFile]
    /\ pc = "filename"
    /\ args = NilArgs
    /\ cfg = NilCfg
    /\ gz = NilGz
    /\ proc = NoProc
    /\ dataPipe = <<>>
    /\ errPipe = 0
    /\ stderrOutput = 0
    /\ checksum = [source |-> <<>>, target |-> <<>>]
    /\ log = <<>>
    /\ ret = NilRet
    /\ exit = 0
    /\ track = NoTrack
    /\ before = <<>>

\* Backup names the artifact of the next request
Backup_Filename ==
    /\ pc = "filename"
    /\ Len(names) < Len(reqs)
    /\ names' = Append(names, Filename(reqs[Len(names) + 1]))
    /\ UNCHANGED <<before, reqs, rev, state, db, fs, pc, args, cfg, gz, proc,
                   dataPipe, errPipe, stderrOutput, checksum, log, ret, exit, track>>

NextNames == Backup_Filename

SpecNames == InitNames /\ [][NextNames]_vars

\* ------------------------------------------------------- reading the state

Ops == {"Backup", "Restore", "Verify"}

\* the effects of the operation that runs or has just returned: the log
\* after the last call of an operation of the service
OpLog ==
    LET calls == {i \in 1..Len(log) : log[i].c \in Ops}
        last == CHOOSE i \in calls : \A j \in calls : j <= i
    IN  IF calls = {} THEN <<>> ELSE SubSeq(log, last + 1, Len(log))

Did(c) == \E i \in 1..Len(OpLog) : OpLog[i].c = c
Failed(c) == \E i \in 1..Len(OpLog) : OpLog[i] = Ev(c, FALSE)
Succeeded(c) == \E i \in 1..Len(OpLog) : OpLog[i] = Ev(c, TRUE)

\* the operation has just returned to the command that called it
BackupReturned == pc \in {"runBackup_2", "runTest_2"}
RestoreReturned == pc \in {"runRestore_2", "runTest_3"}
VerifyReturned == pc \in {"runVerify_2", "runTest_4"}

LivenessErrors ==
    {"container verification failed", "source container verification failed",
     "target container verification failed"}

\* what a container that is not running must be spared
SideEffects ==
    {"os.Create", "pg_dump", "drop", "create", "psql", "pg_dump source", "pg_dump target"}

NoSideEffect == \A i \in 1..Len(OpLog) : OpLog[i].c \notin SideEffects

\* ------------------------------------------------------------------ claims

\* C1: when the runtime reports the container as not running, Backup,
\* Restore and Verify each fail with a container-liveness error and have
\* no further side effect: no artifact file created, no dump or restore
\* process started, no drop or create command executed.  (Backup violates
\* it as stage 1 of the test command: it makes no liveness check.)
C1_NotRunningFailsWithoutSideEffect ==
    /\ (BackupReturned /\ ~IsRunning(cfg.ContainerName))
         => (ret.err \in LivenessErrors /\ NoSideEffect)
    /\ (RestoreReturned /\ ~IsRunning(cfg.ContainerName))
         => (ret.err \in LivenessErrors /\ NoSideEffect)
    /\ (VerifyReturned /\ (~IsRunning(cfg.SourceContainer) \/ ~IsRunning(cfg.TargetContainer)))
         => (ret.err \in LivenessErrors /\ NoSideEffect)

\* C2: whenever Backup returns success, the destination file holds the
\* complete compressed dump: the gzip header, every token of the dump, the
\* trailer.  (Violated: the error of the deferred gzWriter.Close is
\* dropped.)
C2_SuccessMeansCompleteArtifact ==
    (BackupReturned /\ ret.err = "")
        => fs[ret.path] = File(Gzip(FullDump(db[cfg.ContainerName].rows)))

\* C3: when the dump process has exited non-zero, Backup returns a failure,
\* with the empty path, that carries every line the process wrote to its
\* error output, and the destination file still exists.  (Violated: Backup
\* of service.go never reads the error output, and the failed write of the
\* other Backup returns before it reads it.)
C3_DumpFailureCarriesDiagnostics ==
    (BackupReturned /\ proc.kind = "pg_dump" /\ proc.st \in {"exited", "reaped"}
        /\ proc.code # 0)
        => (ret.err # "" /\ ret.path = 0 /\ ret.diag = proc.wrote
            /\ fs[OutputPath(cfg)].exists)


\* the operation of the service that runs or ran last in this run
InRestore ==
    \E i \in 1..Len(log) : log[i].c = "Restore" /\ \A j \in (i + 1)..Len(log) : log[j].c \notin Ops

\* what the import path returns: the errors of the pipes and of Start, of
\* the copy and of Wait, or nil
ImportResults ==
    RestoreStartErrors \cup {"failed to restore backup", "restore failed", ""}

\* the copy reached the end of the artifact and closed the standard input,
\* and the restore process was waited for and had exited zero
ImportSucceeded ==
    Did("psql") /\ proc.kind = "psql" /\ proc.closed /\ proc.st = "reaped" /\ proc.code = 0

\* C4: in Restore, a failed create-database command is fatal with
\* drop-existing (Restore fails, the restore process is never started) and
\* a warning without it (the import path runs, and Restore returns what the
\* import path returns: success exactly when the copy completes and the
\* restore process exits zero).
C4_CreateFailureAsymmetry ==
    (RestoreReturned /\ Failed("create")) =>
        IF cfg.DropExisting
        THEN ret.err = "failed to create database" /\ ~Did("psql")
        ELSE ret.err \in ImportResults /\ (ret.err = "" <=> ImportSucceeded)

\* C4, witness: a Restore without drop-existing whose create command
\* failed has returned success
C4_Witness ==
    RestoreReturned /\ Failed("create") /\ ~cfg.DropExisting /\ ret.err = ""
        /\ ImportSucceeded

\* C5: in Restore the drop-database command is executed exactly when
\* drop-existing is requested and the steps before it succeeded; once it
\* has failed, Restore fails and neither the create command nor the restore
\* process is run.
C5_DropIffRequested ==
    /\ RestoreReturned
         => (Did("drop") <=> (cfg.DropExisting /\ Succeeded("gzip.NewReader")))
    /\ (InRestore /\ Failed("drop"))
         => (ret.op = "Restore" /\ ret.err = "failed to drop database"
             /\ ~Did("create") /\ ~Did("psql"))

\* C5, witness: a Restore whose drop command failed has returned
C5_Witness == RestoreReturned /\ cfg.DropExisting /\ Failed("drop")

Names(l) == [i \in 1..Len(l) |-> l[i].c]

IsPrefix(s, t) == Len(s) <= Len(t) /\ s = SubSeq(t, 1, Len(s))

\* the steps of Restore, in the order of the claim
RestoreOrder(drop) ==
    <<"inspect", "os.Open", "gzip.NewReader">>
        \o (IF drop THEN <<"drop">> ELSE <<>>) \o <<"create", "psql", "Wait">>

PreconditionFailed ==
    Failed("inspect") \/ Failed("os.Open") \/ Failed("gzip.NewReader")

\* C6: Restore checks its preconditions before it touches the database:
\* its steps are, in order, the liveness check, the opening of the
\* artifact, the construction of the decompressor, the drop, the create,
\* the import; and when one of the first three fails, Restore fails and no
\* drop, create or restore command has been executed.
C6_PreconditionsFirst ==
    InRestore =>
        /\ IsPrefix(Names(OpLog), RestoreOrder(cfg.DropExisting))
        /\ PreconditionFailed
             => (ret.op = "Restore" /\ ret.err # ""
                 /\ ~Did("drop") /\ ~Did("create") /\ ~Did("psql"))

\* C6, witness: a Restore with drop-existing has returned because the
\* artifact is not a gzip stream
C6_Witness ==
    RestoreReturned /\ cfg.DropExisting /\ Failed("gzip.NewReader")
        /\ db[cfg.ContainerName].exists

\* C7: Restore returns success only if the whole artifact was copied to
\* the restore process and the process exited zero; a failed copy and a
\* non-zero exit are each a failure that carries the lines the restore
\* process wrote to its error output.  (Violated: the failed copy returns
\* before the error output is read.)
C7_FailureCarriesDiagnostics ==
    (RestoreReturned /\ Did("psql")) =>
        /\ ret.err = "" => ImportSucceeded
        /\ ret.err \in {"failed to restore backup", "restore failed"}
             => ret.diag = proc.wrote

\* C8: Verify returns an error, not match = false, whenever a liveness
\* check or a dump fails (the dump of the target after that of the source
\* included); when both dumps succeed it returns no error and match is
\* whether the two digests are equal.
C8_MismatchIsNotFailure ==
    VerifyReturned =>
        /\ (Failed("inspect") \/ Failed("pg_dump source") \/ Failed("pg_dump target"))
             => ret.err # ""
        /\ (Succeeded("pg_dump source") /\ Succeeded("pg_dump target"))
             => (ret.err = "" /\ ret.match = (checksum.source = checksum.target))
        /\ ret.err = ""
             => (Succeeded("pg_dump source") /\ Succeeded("pg_dump target"))

\* C8, witness: Verify has returned after the dump of the source succeeded
\* and the dump of the target failed
C8_Witness ==
    VerifyReturned /\ Succeeded("pg_dump source") /\ Failed("pg_dump target")

\* C9: in the test command (Backup of the source, Restore of that artifact
\* into the target, dropped and created anew, Verify), when no stage
\* reports a failure Verify yields match = true.  (Violated: the digest is
\* taken over the combined output, so a line on the error output of one
\* dump makes equal databases differ.)
C9_RoundTripMatches ==
    (pc = "runTest_4" /\ ret.err = "") => ret.match

\* Verify has returned from the comparison of the source with the target
\* of Restore
VerifiedTarget == VerifyReturned /\ cfg.TargetContainer = "pg2"

\* C10, as claimed: after a successful Restore, Verify returns match =
\* false once a row of the target has been changed.
C10_AnyMutationMismatches ==
    (VerifiedTarget /\ track.restored /\ track.writes = 1) => ~ret.match

\* C10, amended: after a successful Restore that left the target equal to
\* the source, Verify returns match = false once a row of the target has
\* been changed.
C10_MutationOfEqualMismatches ==
    (VerifiedTarget /\ track.restored /\ track.equal /\ track.writes = 1)
        => ~ret.match

\* C10, witness: Verify has compared, without error, a source and a target
\* that a Restore made equal and one write made differ
C10_Witness ==
    VerifiedTarget /\ track.restored /\ track.equal /\ track.writes = 1
        /\ ret.err = "" /\ ~ret.match

\* C11: Verify is stateless and idempotent, and the comparison of an
\* unchanged database with itself yields match = true.  (Violated: the
\* digest is taken over the combined output, so a line on the error output
\* of one of the two dumps makes a database differ from itself, and two
\* Verify in a row differ as the lines do.)
C11_SelfComparisonMatches ==
    (VerifyReturned /\ cfg.SourceContainer = cfg.TargetContainer /\ ret.err = "")
        => ret.match

\* both requests have their filenames
Named == Len(names) = 2

SameSecond == reqs[1].Timestamp.unix = reqs[2].Timestamp.unix

\* C12: the filename is {database}_{YYYY_MM_DD_HH_MM_SS}.sql.gz, a function
\* of the database name and the timestamp, and two requests have the same
\* filename only if they have the same database name and their timestamps
\* fall in the same second.  (Violated: the timestamp is formatted by the
\* wall clock of its location, which shows the same reading at two
\* instants an hour apart.)
C12_FilenameCollisionFree ==
    Named =>
        /\ \A i \in 1..2 :
             LET n == Len(reqs[i].DatabaseName)
             IN  /\ SubSeq(names[i], 1, n + 1) = reqs[i].DatabaseName \o <<"_">>
                 /\ Len(names[i]) = n + 1 + Len(<<"Y", "Y", "Y", "Y", "_", "M", "M", "_",
                                                 "D", "D", "_", "h", "h", "_", "m", "m",
                                                 "_", "s", "s">>) + 1
                 /\ names[i][Len(names[i])] = ".sql.gz"
        /\ names[1] = names[2]
             => (reqs[1].DatabaseName = reqs[2].DatabaseName /\ SameSecond)

\* the operations of the service called so far in this run, in order
Stages == SelectSeq(Names(log), LAMBDA c : c \in Ops)

\* C13: the test command runs backup(source), restore(target,
\* drop-existing, the path backup returned), verify(source, target), in
\* this order; a stage starts only after the stage before it returned
\* without error; and the command exits zero exactly when verify returned
\* match = true without error.
C13_TestStagesInOrder ==
    [][args.name = "test" =>
        /\ (pc' = "Backup_MkdirAll" /\ pc # pc')
             => (pc = "runTest" /\ Stages = <<>>
                 /\ cfg'.ContainerName = "pg1")
        /\ (pc' = "Restore_VerifyContainer" /\ pc # pc')
             => (pc = "runTest_2" /\ Stages = <<"Backup">>
                 /\ ret.op = "Backup" /\ ret.err = ""
                 /\ cfg'.ContainerName = "pg2" /\ cfg'.DropExisting
                 /\ cfg'.BackupPath = ret.path /\ ret.path = OutputPath(cfg))
        /\ (pc' = "Verify_SourceContainer" /\ pc # pc')
             => (pc = "runTest_3" /\ Stages = <<"Backup", "Restore">>
                 /\ ret.op = "Restore" /\ ret.err = ""
                 /\ cfg'.SourceContainer = "pg1" /\ cfg'.TargetContainer = "pg2")
        /\ pc' = "exit"
             => (exit' = 0 <=> (pc = "runTest_4" /\ ret.op = "Verify"
                                /\ ret.err = "" /\ ret.match))
        /\ pc' = "exit" => exit' \in {0, 1}
      ]_vars

\* C13, witness: the three stages of a test have run and the third found
\* the databases to differ
C13_Witness ==
    pc = "runTest_4" /\ Stages = <<"Backup", "Restore", "Verify">>
        /\ ret.err = "" /\ ~ret.match

\* the contents of the two databases Verify has compared differ
ContentsDiffer == db[cfg.SourceContainer].rows # db[cfg.TargetContainer].rows

\* C14: the exit status of backup, restore, verify and test is non-zero
\* exactly when the operation reported a failure, a required flag was
\* missing or (verify, test) the contents differ; an unknown command and no
\* command exit non-zero, help exits zero.  (Violated: Verify reports
\* equal databases as different when a dump wrote to its error output, and
\* the status follows it.)
C14_ExitStatus ==
    [][pc' = "exit" =>
        (exit' # 0 <=>
            \/ pc = "main" /\ args'.name \in {"unknown", "nocommand"}
            \/ args.missing
            \/ pc = "runBackup"    \* its liveness check of the container failed
            \/ ret.err # ""
            \/ VerifyReturned /\ ret.err = "" /\ ContentsDiffer)
      ]_vars

\* C15: VerifyContainer succeeds if and only if the runtime resolves the
\* name and reports the running flag as true; it fails with "not found" when
\* the name is not resolved and with the distinct "not running" when it is
\* resolved and the flag is not true; it changes nothing.  Checked at every
\* step that calls it.  (Violated: CombinedOutput puts what docker writes to
\* its error output in front of the flag, and a running container is then
\* reported as not running.)
C15_VerifyContainerContract ==
    [][\A c \in Containers :
         /\ ( \/ pc = "Restore_VerifyContainer" /\ c = cfg.ContainerName
              \/ pc = "Verify_SourceContainer" /\ c = cfg.SourceContainer
              \/ pc = "Verify_TargetContainer" /\ c = cfg.TargetContainer )
            => /\ log'[Len(log')].ok <=> state[c] = "running"
               /\ state[c] = "missing" => ret'.cause = "not found"
               /\ state[c] = "stopped" => ret'.cause = "not running"
               /\ ret'.cause # "" => ~log'[Len(log')].ok
               /\ state' = state /\ db' = db /\ fs' = fs
         /\ (pc = "runBackup" /\ ~args.missing /\ c = "pg1")
            => /\ pc' = "Backup_MkdirAll" <=> state[c] = "running"
               /\ state' = state /\ db' = db /\ fs' = fs
      ]_vars

\* the dump process is blocked in a write to its full error pipe while
\* Backup is blocked in a read of its empty data pipe
ExportDeadlock ==
    /\ pc = "Backup_Copy"
    /\ dataPipe = <<>>
    /\ proc.kind = "pg_dump"
    /\ proc.st = "blocked"

\* C16: the export path is free of deadlock: with bounded pipes for the
\* dump's data and its error output, whatever the process writes and in
\* whatever order, no state is reached in which the process is blocked
\* writing diagnostics while Backup is blocked reading data.  (Violated:
\* Backup reads the error output with io.ReadAll only after io.Copy has
\* seen the end of the data, so nothing drains the error pipe during the
\* copy.)
C16_ExportDeadlockFree == ~ExportDeadlock

\* psql is blocked in a write to its full error pipe while Restore is
\* blocked in a write of the next statement to psql's full input pipe
ImportDeadlock ==
    /\ pc = "Restore_Copy"
    /\ proc.kind = "psql"
    /\ proc.st = "running"
    /\ proc.script # <<>>
    /\ errPipe = ErrCap
    /\ Len(dataPipe) = PipeCap
    /\ gz.pos < Len(fs[cfg.BackupPath].data)
    /\ fs[cfg.BackupPath].data[gz.pos + 1] \in Payload

\* C17: the import path is free of deadlock: with bounded pipes for psql's
\* input and its error output, whatever psql writes while it consumes its
\* input, no state is reached in which psql is blocked writing diagnostics
\* while Restore is blocked writing to its input.  (Violated: Restore reads
\* the error output with io.ReadAll only after io.Copy has written the
\* whole dump and closed the input.)
C17_ImportDeadlockFree == ~ImportDeadlock

\* the process the operation started with cmd.Start has been waited on, or
\* the operation started none (the commands run with CombinedOutput are
\* waited on inside it)
Reaped == proc.st \in {"none", "reaped"}

\* C18: every external process Backup, Restore or Verify has spawned is
\* reaped before the operation returns, on every path, and once Restore has
\* returned the input of its psql is closed.  (Violated: the returns after
\* a failed io.Copy come before cmd.Wait, and a failed copy of Restore
\* before stdin.Close() too.)
C18_ProcessesReaped ==
    /\ (BackupReturned \/ RestoreReturned \/ VerifyReturned) => Reaped
    /\ (RestoreReturned /\ proc.kind = "psql") => proc.closed

\* where the operation's log has the step c
At(c) == {i \in 1..Len(OpLog) : OpLog[i].c = c}

\* C19: the order of the export's steps: once the dump process is spawned
\* Backup copies its output to the end, then closes the compressing writer,
\* and only then waits for the process; the compressing writer is closed
\* exactly once, before the wait and before the file is closed.  (Violated:
\* gzWriter.Close() is deferred, so it runs at the return, after cmd.Wait.)
C19_ExportStepOrder ==
    (BackupReturned /\ Succeeded("os.Create")) =>
        /\ Cardinality(At("gzWriter.Close")) = 1
        /\ \A i \in At("gzWriter.Close") :
             /\ \A j \in At("pg_dump") : j < i
             /\ \A j \in At("Wait") : i < j
             /\ \A j \in At("outFile.Close") : i < j

\* where the decompressor stops in an artifact: the first token after the
\* header that is no statement of a dump, or the end of the file
StopAt(data) ==
    CHOOSE i \in 2..(Len(data) + 1) :
        /\ i > Len(data) \/ data[i] \notin Payload
        /\ \A j \in 2..(i - 1) : data[j] \in Payload

\* the artifact has a valid header and its stream is malformed part-way:
\* after at least one statement it is damaged, or ends without its trailer
Malformed(data) ==
    /\ data # <<>>
    /\ data[1] = "GZHDR"
    /\ StopAt(data) > 2
    /\ StopAt(data) > Len(data) \/ data[StopAt(data)] # "GZTRL"

\* what psql makes of a database when it executes the statements s
RECURSIVE ExecuteAll(_, _)
ExecuteAll(rows, s) ==
    IF s = <<>> THEN rows ELSE ExecuteAll(Execute(rows, Head(s)), Tail(s))

\* C20: when the artifact's header is valid and its stream is malformed
\* part-way, a Restore that reaches the copy fails there ("failed to
\* restore backup") and never succeeds: the drop, if requested, and the
\* create have run, psql has been handed only statements that come before
\* the damage, Restore returns without having waited on psql, and the drop
\* and create are not undone: the database holds what psql made of the
\* statements it read, not what it held before.
C20_CorruptArtifactFailsAtCopy ==
    (RestoreReturned /\ Succeeded("gzip.NewReader") /\ Malformed(fs[cfg.BackupPath].data)) =>
        /\ ret.err # ""
        /\ Did("psql") =>
             /\ ret.err = "failed to restore backup"
             /\ cfg.DropExisting => (Succeeded("drop") /\ Succeeded("create"))
             /\ Did("create")
             /\ gz.pos < StopAt(fs[cfg.BackupPath].data)
             /\ ~Did("Wait")
             /\ proc.kind = "psql" /\ proc.st # "reaped"
             /\ (cfg.DropExisting /\ proc.code = 0) =>
                  db[cfg.ContainerName] =
                      Db(ExecuteAll(<<>>, SubSeq(fs[cfg.BackupPath].data, 2,
                                                 gz.pos - Len(dataPipe))))

\* C20, witness: a Restore with drop-existing of an artifact damaged after
\* its first statement has failed at the damage, with psql still running
\* and the statement before the damage handed to it.
C20_Witness ==
    /\ RestoreReturned
    /\ Malformed(fs[cfg.BackupPath].data)
    /\ cfg.DropExisting
    /\ Succeeded("drop") /\ Succeeded("create") /\ Did("psql")
    /\ ret.err = "failed to restore backup"
    /\ gz.pos = StopAt(fs[cfg.BackupPath].data) - 1
    /\ proc.st = "running" /\ proc.code = 0
    /\ db[cfg.ContainerName].exists

\* the external commands of the three operations, as the log names them
ExternalCommands ==
    {"inspect", "pg_dump", "drop", "create", "psql", "pg_dump source", "pg_dump target"}

\* the operation the log l belongs to: Verify queries and dumps each side
\* of the comparison, the other operations their one container
Sides == IF cfg.SourceContainer # "" THEN 2 ELSE 1

\* in the log l of one operation no command is started twice (the liveness
\* query once for each side), and none again after it has failed
NoRetry(l) ==
    /\ \A c \in ExternalCommands :
         Cardinality({i \in 1..Len(l) : l[i].c = c})
             <= (IF c = "inspect" THEN Sides ELSE 1)
    /\ \A i, j \in 1..Len(l) :
         (i < j /\ l[i].c = l[j].c /\ l[i].c \in ExternalCommands) => l[i].ok

\* C21: no retry: within one Backup, Restore or Verify each external
\* command (the liveness query of each side, the dump, the drop, the
\* create, the restore) is started at most once, and a command that has
\* failed is never started again.  Checked at every step that starts one.
C21_NoRetry == [][log' # log => (\A l \in {OpLog} : NoRetry(l))']_vars

\* C21, witness: a Verify whose dump of the source failed has returned,
\* after that one dump and no other
C21_Witness ==
    /\ VerifyReturned
    /\ Failed("pg_dump source")
    /\ ~Did("pg_dump target")
    /\ ret.err = "failed to get source checksum"

\* the digest of what the data-only dump of a container writes to its
\* standard output
DataDigest(containerName) == Hex(md5Sum(DataDump(db[containerName].rows)))

\* C22: the digest Verify computes for a side depends only on the data
\* stream of that side's data-only dump: it is the digest of that stream,
\* and two databases of identical content yield match = true whatever the
\* dumps write to their error output.  (Violated: getDatabaseChecksum
\* hashes cmd.CombinedOutput(), the lines of the error output included.)
C22_DigestOfDataOnly ==
    (VerifyReturned /\ ret.err = "") =>
        /\ checksum.source = DataDigest(cfg.SourceContainer)
        /\ checksum.target = DataDigest(cfg.TargetContainer)
        /\ ~ContentsDiffer => ret.match

\* ------------------------------------------------- the files of a Backup

\* Backup has just been called, by runBackup (which has found the container
\* running) or as the first stage of runTest, in a directory that holds
\* whatever earlier runs left there
InitBackup ==
    /\ rev \in {"v1", "v2"}
    /\ state \in [Containers -> {"running", "stopped", "missing"}]
    /\ db \in {d \in [Containers -> {NoDb} \cup {Db(c) : c \in Contents}] :
                  /\ \A c \in Containers : ~IsRunning(c) => d[c] = NoDb
                  /\ d["pg2"] = NoDb}
    /\ fs \in [Seconds -> InitFiles]
    /\ before = fs
    /\ \E name \in {"backup", "test"} \cap Commands, ts \in Seconds :
         /\ name = "backup" => IsRunning("pg1")
         /\ args = [NilArgs EXCEPT !.name = name, !.ts = ts]
         /\ cfg = [NilCfg EXCEPT !.ContainerName = "pg1", !.Timestamp = ts]
         /\ log = IF name = "backup"
                  THEN <<Ev("inspect", TRUE), Ev("Backup", TRUE)>>
                  ELSE <<Ev("Backup", TRUE)>>
    /\ pc = "Backup_MkdirAll"
    /\ gz = NilGz
    /\ proc = NoProc
    /\ dataPipe = <<>>
    /\ errPipe = 0
    /\ stderrOutput = 0
    /\ checksum = [source |-> <<>>, target |-> <<>>]
    /\ ret = NilRet
    /\ exit = 0
    /\ track = NoTrack
    /\ reqs = <<>>
    /\ names = <<>>

\* the steps of Backup and of its pg_dump, to the return of Backup
NextBackup ==
    \/ Backup_MkdirAll
    \/ Backup_Create
    \/ Backup_Start
    \/ Backup_Copy
    \/ Backup_CopyEOF
    \/ Backup_ReadAll
    \/ Backup_Wait
    \/ ProcWrite
    \/ ProcWarn
    \/ ProcExit

SpecBackup == InitBackup /\ [][NextBackup]_vars

\* C23: a Backup that fails leaves every artifact file that existed before
\* the call as it was, the one at its own path included.  (Violated:
\* os.Create truncates the file of the same database and second before the
\* dump has produced anything, and the Backup can still fail.)
C23_FailedBackupKeepsArtifacts ==
    (BackupReturned /\ ret.err # "") =>
        \A s \in Seconds : before[s].exists => fs[s] = before[s]

====
